---- MODULE Spec2Model ----
(***************************************************************************)
(* tools/offline/merge_training_dbs.py: merging several training DBs into  *)
(* one combined DB with remapped ids.                                      *)
(*                                                                         *)
(* The destination is a sqlite3 connection: `dest` is what the connection  *)
(* sees (uncommitted inserts included), `outFile` is what is committed at  *)
(* the output path.  A table is the set of its rows, a source table the    *)
(* sequence in which SELECT returns its rows.  Every row carries its key   *)
(* columns and `attrs`, which stands for all the columns merge_db copies   *)
(* unchanged.                                                              *)
(***************************************************************************)
EXTENDS Integers, Sequences, FiniteSets, TLC

VARIABLES
    pc,         \* position of main / merge_db
    run,        \* runs of main started: 0 none, 1 the first, 2 a later one
    dbs,        \* main: the list read_db_list returned
    k,          \* main: index in dbs of the entry being merged (for db in dbs)
    outFile,    \* the file at out_path: [exists, db], db = committed tables
    dest,       \* the tables as seen through the destination connection
    destOpen,   \* the destination connection is open
    open,       \* the source paths with an open connection (src)
    rows,       \* merge_db: the rows fetched from the source table being copied
    idx,        \* merge_db: rows copied so far in the current loop
    offs,       \* merge_db: match_offset, point_offset, ... events/debug offset
    match_map,  \* merge_db: old match id -> new match id
    point_map,  \* merge_db: old point id -> new point id
    outcome,    \* how the current/last run ended
    log,        \* lines printed by the current run
    origin,     \* history: for each copied row, the pass and source row it is from
    prev,       \* history: manifest and result of the previous finished run
    retpc,      \* where merge_db returns to (main's loop, or a direct caller)
    schemaRuns, \* history: executions of SCHEMA_SQL in the current run
    listFile,   \* read_db_list: the file at path, as characters
    lines       \* read_db_list: the lines the loop has still to read

vars == <<pc, run, dbs, k, outFile, dest, destOpen, open, rows, idx, offs,
          match_map, point_map, outcome, log, origin, prev, retpc, schemaRuns, listFile, lines>>

(***************************************************************************)
(* Bounds.                                                                 *)
(***************************************************************************)
MaxManifest == 2    \* entries of a list file
MaxTextLen == 6     \* characters of a list file
MaxPreId == 3       \* largest id of a row already in a destination handed
                    \* directly to merge_db

NULL == -1          \* Python None / SQL NULL in an integer column

Tables == {"matches", "points", "player_stats", "events", "debug_events"}

(***************************************************************************)
(* The file system: the source DBs a list file can name.  a.db and b.db    *)
(* each hold one session, one match and one event of that match and use    *)
(* the same local ids; c.db shares session s1 with a.db, has gaps in its   *)
(* ids, and has rows with dangling and NULL foreign keys (the schema       *)
(* declares the references but sqlite does not enforce them by default).   *)
(***************************************************************************)
Paths == {"a.db", "b.db", "c.db", "missing.db"}

Exists(p) == p # "missing.db"

EmptyStore ==
    [sessions |-> << >>, matches |-> << >>, points |-> << >>,
     player_stats |-> << >>, events |-> << >>, debug_events |-> << >>]

StoreA ==
    [EmptyStore EXCEPT
       !.sessions = << [id |-> "s1", attrs |-> "a.s1"] >>,
       !.matches = << [id |-> 1, session_id |-> "s1", attrs |-> "a.m1"] >>,
       !.events = << [id |-> 1, match_id |-> 1, point_id |-> NULL, attrs |-> "a.e1"] >>]

StoreB ==
    [EmptyStore EXCEPT
       !.sessions = << [id |-> "s2", attrs |-> "b.s2"] >>,
       !.matches = << [id |-> 1, session_id |-> "s2", attrs |-> "b.m1"] >>,
       !.events = << [id |-> 1, match_id |-> 1, point_id |-> NULL, attrs |-> "b.e1"] >>]

StoreC ==
    [sessions |-> << [id |-> "s1", attrs |-> "c.s1"],
                     [id |-> "s3", attrs |-> "c.s3"] >>,
     matches |-> << [id |-> 2, session_id |-> "s1", attrs |-> "c.m2"],
                    [id |-> 5, session_id |-> "s3", attrs |-> "c.m5"] >>,
     points |-> << [id |-> 3, match_id |-> 2, attrs |-> "c.p3"],
                   [id |-> 7, match_id |-> 9, attrs |-> "c.p7"] >>,
     player_stats |-> << [id |-> 1, match_id |-> 2, attrs |-> "c.s1"],
                         [id |-> 4, match_id |-> 1, attrs |-> "c.s4"] >>,
     events |-> << [id |-> 1, match_id |-> 2, point_id |-> 3, attrs |-> "c.e1"],
                   [id |-> 2, match_id |-> 5, point_id |-> NULL, attrs |-> "c.e2"],
                   [id |-> 4, match_id |-> 5, point_id |-> 8, attrs |-> "c.e4"],
                   [id |-> 6, match_id |-> 9, point_id |-> 7, attrs |-> "c.e6"] >>,
     debug_events |-> << [id |-> 10, match_id |-> 5, attrs |-> "c.d10"],
                         [id |-> 11, match_id |-> NULL, attrs |-> "c.d11"] >>]

Store(p) ==
    CASE p = "a.db" -> StoreA
      [] p = "b.db" -> StoreB
      [] p = "c.db" -> StoreC
      [] OTHER -> EmptyStore

\* The lists read_db_list can return.
RECURSIVE SeqsUpTo(_, _)
SeqsUpTo(S, n) ==
    IF n = 0 THEN { << >> }
    ELSE LET shorter == SeqsUpTo(S, n - 1)
         IN  shorter \cup { Append(s, x) : s \in shorter, x \in S }

\* The list file as read_db_list sees it: absent, or a text of characters.
\* " " stands for white space, "\n" for a line boundary, "a" and "b" for the
\* characters of a path.
Chars == {" ", "#", "a", "b", "\n"}

NoList == [exists |-> FALSE, text |-> << >>]

ListFiles ==
    {NoList} \cup { [exists |-> TRUE, text |-> t] : t \in SeqsUpTo(Chars, MaxTextLen) }

Manifests == SeqsUpTo(Paths, MaxManifest)

(***************************************************************************)
(* Destination tables.                                                     *)
(***************************************************************************)
EmptyDb ==
    [sessions |-> {}, matches |-> {}, points |-> {},
     player_stats |-> {}, events |-> {}, debug_events |-> {}]

NoFile == [exists |-> FALSE, db |-> EmptyDb]

Ids(table) == { r.id : r \in table }

SetMax(S) ==
    IF S = {} THEN 0 ELSE CHOOSE x \in S : \A y \in S : y <= x

SetMin(S) ==
    IF S = {} THEN 0 ELSE CHOOSE x \in S : \A y \in S : x <= y

\* Faulty variant of max_id: MIN(id) in place of MAX(id).
max_idMin(conn, table) ==
    IF conn[table] = {} THEN 0 ELSE SetMin(Ids(conn[table]))

\* Faulty variant of max_id: COUNT(*) in place of MAX(id).
max_idCount(conn, table) == Cardinality(conn[table])

\* def max_id: SELECT COALESCE(MAX(id), 0) FROM table
max_id(conn, table) ==
    IF conn[table] = {} THEN 0 ELSE SetMax(Ids(conn[table]))

\* Faulty variant of MapGet: map.get(key, key), an unmapped id is kept.
MapGetKeep(map, key) == IF key \in DOMAIN map THEN map[key] ELSE key

\* dict.get: the mapped id, None when the key is absent
MapGet(map, key) == IF key \in DOMAIN map THEN map[key] ELSE NULL

\* Faulty variant of NewId: enumerate(rows) counting from 0.
NewIdFromZero(offset, i) == offset + i - 1

\* Faulty variant of NewId: the index is counted twice.
NewIdDoubled(offset, i) == offset + 2 * i

\* new_id = <table>_offset + idx, idx counted from 1
NewId(offset, i) == offset + i

\* Faulty variant of InsertOrIgnoreAll: every source session is added, present or not.
InsertAll(table, srcRows) == table \cup { srcRows[i] : i \in 1 .. Len(srcRows) }

\* Faulty variant of InsertOrIgnoreAll: INSERT OR REPLACE, a source session
\* takes the place of the row with its id.
InsertOrReplaceAll(table, srcRows) ==
    LET new == { srcRows[i] : i \in 1 .. Len(srcRows) }
    IN  { r \in table : r.id \notin { n.id : n \in new } } \cup new

\* def copy_sessions: INSERT OR IGNORE of every source session, in order
RECURSIVE InsertOrIgnoreAll(_, _)
InsertOrIgnoreAll(table, srcRows) ==
    IF srcRows = << >> THEN table
    ELSE LET row == Head(srcRows)
             t2 == IF row.id \in Ids(table) THEN table ELSE table \cup {row}
         IN  InsertOrIgnoreAll(t2, Tail(srcRows))

copy_sessions(d, src) ==
    [d EXCEPT !.sessions = InsertOrIgnoreAll(d.sessions, src.sessions)]

\* The five offsets, read from the destination before any row is copied.
ReadOffsetsOf(d) == [t \in Tables |-> max_id(d, t)]

\* The row written for the i-th source row of each table.
MatchRow(row, newId) ==
    [id |-> newId, session_id |-> row.session_id, attrs |-> row.attrs]

\* Faulty variant of PointRow: match_id copied without the match map.
PointRowRaw(row, newId, mmap) ==
    [id |-> newId, match_id |-> row.match_id, attrs |-> row.attrs]

PointRow(row, newId, mmap) ==
    [id |-> newId, match_id |-> MapGet(mmap, row.match_id), attrs |-> row.attrs]

StatRow(row, newId, mmap) ==
    [id |-> newId, match_id |-> MapGet(mmap, row.match_id), attrs |-> row.attrs]

\* Faulty variant of EventRow: point_id copied without the point map.
EventRowRawPoint(row, newId, mmap, pmap) ==
    [id |-> newId,
     match_id |-> MapGet(mmap, row.match_id),
     point_id |-> row.point_id,
     attrs |-> row.attrs]

\* Faulty variant of EventRow: match_id copied without the match map.
EventRowRawMatch(row, newId, mmap, pmap) ==
    [id |-> newId,
     match_id |-> row.match_id,
     point_id |-> IF row.point_id # NULL THEN MapGet(pmap, row.point_id) ELSE NULL,
     attrs |-> row.attrs]

EventRow(row, newId, mmap, pmap) ==
    [id |-> newId,
     match_id |-> MapGet(mmap, row.match_id),
     point_id |-> IF row.point_id # NULL THEN MapGet(pmap, row.point_id) ELSE NULL,
     attrs |-> row.attrs]

DebugRow(row, newId, mmap) ==
    [id |-> newId, match_id |-> MapGet(mmap, row.match_id), attrs |-> row.attrs]

EmptyMap == << >>

NoOffsets == [t \in Tables |-> 0]

NoPrev == [valid |-> FALSE, dbs |-> << >>, db |-> EmptyDb, outcome |-> "none"]

\* Faulty variant of cur: the loop walks the list from its end.
curReversed == dbs[Len(dbs) + 1 - k]

cur == dbs[k]


(***************************************************************************)
(* Initial states.                                                         *)
(***************************************************************************)
Locals0 ==
    /\ rows = << >>
    /\ idx = 0
    /\ offs = NoOffsets
    /\ match_map = EmptyMap
    /\ point_map = EmptyMap

\* main has not been run yet; there is no file at out_path.
Init ==
    /\ pc = "idle"
    /\ run = 0
    /\ dbs = << >>
    /\ k = 0
    /\ outFile = NoFile
    /\ dest = EmptyDb
    /\ destOpen = FALSE
    /\ open = {}
    /\ Locals0
    /\ outcome = "none"
    /\ log = << >>
    /\ origin = {}
    /\ prev = NoPrev
    /\ retpc = "loop"
    /\ schemaRuns = 0
    /\ listFile = NoList
    /\ lines = << >>

\* A destination that already holds rows, with gaps in its ids.
PreDest(S) ==
    [sessions |-> IF 1 \in S THEN { [id |-> "s1", attrs |-> "pre.s1"] } ELSE {},
     matches |-> { [id |-> i, session_id |-> "s1", attrs |-> "pre.m"] : i \in S },
     points |-> { [id |-> i + 1, match_id |-> NULL, attrs |-> "pre.p"] : i \in S },
     player_stats |-> {},
     events |-> { [id |-> 2 * i, match_id |-> NULL, point_id |-> NULL,
                   attrs |-> "pre.e"] : i \in S },
     debug_events |-> { [id |-> i, match_id |-> NULL, attrs |-> "pre.d"] : i \in S }]

PreDests == { PreDest(S) : S \in SUBSET (1 .. MaxPreId) }

\* merge_db called directly, once per entry of dbs, on an open destination
\* that may already hold rows.
InitMerge ==
    /\ pc = "direct"
    /\ run = 0
    /\ dbs \in Manifests \ { << >> }
    /\ k = 0
    /\ dest \in PreDests
    /\ outFile = [exists |-> TRUE, db |-> dest]
    /\ destOpen = TRUE
    /\ open = {}
    /\ Locals0
    /\ outcome = "running"
    /\ log = << >>
    /\ origin = {}
    /\ prev = NoPrev
    /\ retpc = "direct"
    /\ schemaRuns = 0
    /\ listFile = NoList
    /\ lines = << >>

(***************************************************************************)
(* main                                                                    *)
(***************************************************************************)
mergeLocals == <<rows, idx, offs, match_map, point_map>>

\* The previous run, when it ended with exit code 0.
LastRun ==
    IF outcome = "returned0"
    THEN [valid |-> TRUE, dbs |-> dbs, db |-> outFile.db, outcome |-> outcome]
    ELSE NoPrev

\* The process ends: its locals are gone.
EndLocals ==
    /\ rows' = << >>
    /\ idx' = 0
    /\ offs' = NoOffsets
    /\ match_map' = EmptyMap
    /\ point_map' = EmptyMap

\* A new process: every local starts afresh.  main may be run any number of
\* times against the same output path.
StartRun ==
    /\ pc = "idle"
    /\ run' = IF run = 0 THEN 1 ELSE 2
    /\ prev' = LastRun
    /\ k' = 0
    /\ log' = << >>
    /\ schemaRuns' = 0
    /\ UNCHANGED <<outFile, dest, destOpen, open, mergeLocals, origin, retpc, listFile, lines>>

\* Faulty variant of MainListMissing: the output file is removed before the
\* list is read.
MainListMissingAfterUnlink ==
    /\ pc = "idle"
    /\ run' = IF run = 0 THEN 1 ELSE 2
    /\ prev' = LastRun
    /\ k' = 0
    /\ log' = << >>
    /\ schemaRuns' = 0
    /\ outFile' = NoFile
    /\ dbs' = << >>
    /\ outcome' = "FileNotFoundError"
    /\ pc' = "idle"
    /\ UNCHANGED <<dest, destOpen, open, mergeLocals, origin, retpc, listFile, lines>>

\* read_db_list: the list file does not exist, FileNotFoundError leaves main.
MainListMissing ==
    /\ StartRun
    /\ dbs' = << >>
    /\ outcome' = "FileNotFoundError"
    /\ pc' = "idle"

\* dbs = read_db_list(Path(args.list))
MainReadList ==
    /\ StartRun
    /\ \E m \in Manifests : dbs' = m
    /\ outcome' = "running"
    /\ pc' = "checked"

\* Faulty variant of MainNoDbs: the empty list is reported but main returns 0.
MainNoDbsExit0 ==
    /\ pc = "checked"
    /\ dbs = << >>
    /\ log' = Append(log, <<"No DBs found in list.", "">>)
    /\ outcome' = "returned0"
    /\ pc' = "idle"
    /\ UNCHANGED <<run, dbs, k, outFile, dest, destOpen, open, mergeLocals,
                   origin, prev, retpc, schemaRuns, listFile, lines>>

\* if not dbs: print("No DBs found in list."); return 1
MainNoDbs ==
    /\ pc = "checked"
    /\ dbs = << >>
    /\ log' = Append(log, <<"No DBs found in list.", "">>)
    /\ outcome' = "returned1"
    /\ pc' = "idle"
    /\ UNCHANGED <<run, dbs, k, outFile, dest, destOpen, open, mergeLocals,
                   origin, prev, retpc, schemaRuns, listFile, lines>>

\* Faulty variant of MainConnect: the existing output file is opened, not removed.
MainConnectKeep ==
    /\ pc = "checked"
    /\ dbs # << >>
    /\ dest' = outFile.db
    /\ destOpen' = TRUE
    /\ origin' = {}
    /\ pc' = "schema"
    /\ UNCHANGED <<run, dbs, k, outFile, open, mergeLocals, outcome, log, prev,
                   retpc, schemaRuns, listFile, lines>>

\* out_path.unlink() if it exists; dest = sqlite3.connect(str(out_path))
MainConnect ==
    /\ pc = "checked"
    /\ dbs # << >>
    /\ outFile' = NoFile
    /\ dest' = EmptyDb
    /\ destOpen' = TRUE
    /\ origin' = {}
    /\ pc' = "schema"
    /\ UNCHANGED <<run, dbs, k, open, mergeLocals, outcome, log, prev, retpc,
                   schemaRuns, listFile, lines>>

\* dest.executescript(SCHEMA_SQL): CREATE TABLE IF NOT EXISTS, committed
MainSchema ==
    /\ pc = "schema"
    /\ outFile' = [exists |-> TRUE, db |-> dest]
    /\ schemaRuns' = schemaRuns + 1
    /\ pc' = "loop"
    /\ UNCHANGED <<run, dbs, k, dest, destOpen, open, mergeLocals, outcome, log,
                   origin, prev, retpc, listFile, lines>>

\* for db in dbs: merge_db(dest, db)
MainNext ==
    /\ pc = "loop"
    /\ k < Len(dbs)
    /\ k' = k + 1
    /\ pc' = "call"
    /\ UNCHANGED <<run, dbs, outFile, dest, destOpen, open, mergeLocals, outcome,
                   log, origin, prev, retpc, schemaRuns, listFile, lines>>

\* finally: dest.close(); print("Combined DB written to ..."); return 0
MainFinish ==
    /\ pc = "loop"
    /\ k = Len(dbs)
    /\ dest' = EmptyDb
    /\ destOpen' = FALSE
    /\ log' = Append(log, <<"Combined DB written to", "out">>)
    /\ outcome' = "returned0"
    /\ pc' = "idle"
    /\ EndLocals
    /\ UNCHANGED <<run, dbs, k, outFile, open, origin, prev, retpc, schemaRuns, listFile, lines>>

\* Faulty variant of MainAbort: the pending inserts are committed on the way
\* out (a commit in the finally block, or a connection in autocommit mode).
MainAbortCommit ==
    /\ pc = "raise"
    /\ retpc = "loop"
    /\ outFile' = [exists |-> TRUE, db |-> dest]
    /\ dest' = EmptyDb
    /\ destOpen' = FALSE
    /\ pc' = "idle"
    /\ EndLocals
    /\ UNCHANGED <<run, dbs, k, open, outcome, log, origin, prev, retpc,
                   schemaRuns, listFile, lines>>

\* Faulty variant of MainAbort: the exception is caught in the loop and main
\* goes on with the next entry.
MainAbortContinue ==
    /\ pc = "raise"
    /\ retpc = "loop"
    /\ pc' = "loop"
    /\ UNCHANGED <<run, dbs, k, outFile, dest, destOpen, open, mergeLocals,
                   outcome, log, origin, prev, retpc, schemaRuns, listFile, lines>>

\* An exception leaves merge_db: finally: dest.close() drops the uncommitted
\* inserts, and the exception ends the process.
MainAbort ==
    /\ pc = "raise"
    /\ retpc = "loop"
    /\ dest' = EmptyDb
    /\ destOpen' = FALSE
    /\ origin' = { o \in origin : o.pass < k }
    /\ pc' = "idle"
    /\ EndLocals
    /\ UNCHANGED <<run, dbs, k, outFile, open, outcome, log, prev, retpc,
                   schemaRuns, listFile, lines>>

\* merge_db called directly by another caller, for each entry of dbs.
DirectCall ==
    /\ pc = "direct"
    /\ k < Len(dbs)
    /\ k' = k + 1
    /\ pc' = "call"
    /\ UNCHANGED <<run, dbs, outFile, dest, destOpen, open, mergeLocals, outcome,
                   log, origin, prev, retpc, schemaRuns, listFile, lines>>

\* raise SystemExit(main()): the exit code of a run that has ended; an
\* exception that leaves main ends the process with code 1.
ExitCode(o) == IF o = "returned0" THEN 0 ELSE 1

(***************************************************************************)
(* merge_db                                                                *)
(***************************************************************************)
mainVars == <<run, dbs, k, prev, retpc, schemaRuns, listFile, lines>>

\* Faulty variant of Raise: no finally clause, the source stays open.
RaiseLeak(e) ==
    /\ pc' = "raise"
    /\ outcome' = e
    /\ UNCHANGED <<mainVars, outFile, dest, destOpen, open, rows, idx, offs, log,
                   origin>>

\* An exception inside try: finally: src.close(), then it leaves merge_db.
\* (The id maps are left to the raising step: an insert has already recorded
\* the new id when dest.execute raises.)
Raise(e) ==
    /\ pc' = "raise"
    /\ outcome' = e
    /\ open' = open \ {cur}
    /\ UNCHANGED <<mainVars, outFile, dest, destOpen, rows, idx, offs, log, origin>>

\* dest.execute("INSERT INTO <table> ..."): the row is added to the table; a
\* primary key already present makes sqlite raise IntegrityError.
Insert(table, old, row) ==
    IF row.id \in Ids(dest[table])
    THEN Raise("IntegrityError")
    ELSE /\ dest' = [dest EXCEPT ![table] = @ \cup {row}]
         /\ origin' = origin \cup
                { [table |-> table, id |-> row.id, pass |-> k, path |-> cur,
                   old |-> old] }
         /\ idx' = idx + 1
         /\ UNCHANGED <<mainVars, pc, outFile, destOpen, open, rows, offs,
                        outcome, log>>

\* Faulty variant of MergeSkip: a missing source raises instead of being skipped.
MergeSkipRaise ==
    /\ pc = "call"
    /\ ~Exists(cur)
    /\ UNCHANGED <<match_map, point_map>>
    /\ Raise("FileNotFoundError")

\* if not src_path.exists(): print("Skipping missing DB: ..."); return
MergeSkip ==
    /\ pc = "call"
    /\ ~Exists(cur)
    /\ log' = Append(log, <<"Skipping missing DB", cur>>)
    /\ pc' = retpc
    /\ UNCHANGED <<mainVars, outFile, dest, destOpen, open, mergeLocals, outcome,
                   origin>>

\* src = sqlite3.connect(str(src_path))
MergeOpen ==
    /\ pc = "call"
    /\ Exists(cur)
    /\ open' = open \cup {cur}
    /\ pc' = "copy_sessions"
    /\ UNCHANGED <<mainVars, outFile, dest, destOpen, mergeLocals, outcome, log,
                   origin>>

\* copy_sessions(dest, src)
CopySessions ==
    /\ pc = "copy_sessions"
    /\ dest' = copy_sessions(dest, Store(cur))
    /\ pc' = "offsets"
    /\ UNCHANGED <<mainVars, outFile, destOpen, open, mergeLocals, outcome, log,
                   origin>>

\* Faulty variant of ReadOffsets: the offsets are read for the first entry
\* only and kept for the later ones.
ReadOffsetsCached ==
    /\ pc = "offsets"
    /\ offs' = IF k = 1 THEN ReadOffsetsOf(dest) ELSE offs
    /\ match_map' = EmptyMap
    /\ point_map' = EmptyMap
    /\ pc' = "fetch_matches"
    /\ UNCHANGED <<mainVars, outFile, dest, destOpen, open, rows, idx, outcome,
                   log, origin>>

\* Faulty variant of ReadOffsets: the id maps of the pass before are kept.
ReadOffsetsKeepMaps ==
    /\ pc = "offsets"
    /\ offs' = ReadOffsetsOf(dest)
    /\ pc' = "fetch_matches"
    /\ UNCHANGED <<mainVars, outFile, dest, destOpen, open, rows, idx, outcome,
                   log, origin, match_map, point_map>>

\* match_offset = max_id(dest, "matches") ... debug_offset; match_map = {};
\* point_map = {}
ReadOffsets ==
    /\ pc = "offsets"
    /\ offs' = ReadOffsetsOf(dest)
    /\ match_map' = EmptyMap
    /\ point_map' = EmptyMap
    /\ pc' = "fetch_matches"
    /\ UNCHANGED <<mainVars, outFile, dest, destOpen, open, rows, idx, outcome,
                   log, origin>>

\* Faulty variant of Fetch: an inner join with matches, a row whose match_id
\* names no match of the source is not read.
FetchJoined(from, table) ==
    /\ pc = from
    /\ from = "fetch_matches" \/ idx = Len(rows)
    /\ rows' = LET all == Store(cur)[table]
                   HasMatch(r) ==
                       \E i \in 1 .. Len(Store(cur)["matches"]) :
                          Store(cur)["matches"][i].id = r.match_id
               IN  IF table = "matches" THEN all ELSE SelectSeq(all, HasMatch)
    /\ idx' = 0
    /\ pc' = table
    /\ UNCHANGED <<mainVars, outFile, dest, destOpen, open, offs, match_map,
                   point_map, outcome, log, origin>>

\* rows = src.execute("SELECT ... FROM <table>").fetchall(), once the loop over
\* the table before it is through
Fetch(from, table) ==
    /\ pc = from
    /\ from = "fetch_matches" \/ idx = Len(rows)
    /\ rows' = Store(cur)[table]
    /\ idx' = 0
    /\ pc' = table
    /\ UNCHANGED <<mainVars, outFile, dest, destOpen, open, offs, match_map,
                   point_map, outcome, log, origin>>

FetchMatches == Fetch("fetch_matches", "matches")

\* Faulty variant of InsertMatch: the new id is not recorded in match_map.
InsertMatchNoMap ==
    /\ pc = "matches"
    /\ idx < Len(rows)
    /\ LET row == rows[idx + 1]
           new_id == NewId(offs["matches"], idx + 1)
       IN  /\ UNCHANGED <<match_map, point_map>>
           /\ Insert("matches", row.id, MatchRow(row, new_id))

\* for idx, row in enumerate(rows, start=1): matches
InsertMatch ==
    /\ pc = "matches"
    /\ idx < Len(rows)
    /\ LET row == rows[idx + 1]
           new_id == NewId(offs["matches"], idx + 1)
       IN  /\ match_map' = (row.id :> new_id) @@ match_map
           /\ point_map' = point_map
           /\ Insert("matches", row.id, MatchRow(row, new_id))

FetchPoints == Fetch("matches", "points")

\* for idx, row in enumerate(rows, start=1): points
InsertPoint ==
    /\ pc = "points"
    /\ idx < Len(rows)
    /\ LET row == rows[idx + 1]
           new_id == NewId(offs["points"], idx + 1)
       IN  /\ point_map' = (row.id :> new_id) @@ point_map
           /\ match_map' = match_map
           /\ Insert("points", row.id, PointRow(row, new_id, match_map))

FetchStats == Fetch("points", "player_stats")

\* for idx, row in enumerate(rows, start=1): player_stats
InsertStat ==
    /\ pc = "player_stats"
    /\ idx < Len(rows)
    /\ LET row == rows[idx + 1]
           new_id == NewId(offs["player_stats"], idx + 1)
       IN  /\ UNCHANGED <<match_map, point_map>>
           /\ Insert("player_stats", row.id, StatRow(row, new_id, match_map))

FetchEvents == Fetch("player_stats", "events")

\* for idx, row in enumerate(rows, start=1): events
InsertEvent ==
    /\ pc = "events"
    /\ idx < Len(rows)
    /\ LET row == rows[idx + 1]
           new_id == NewId(offs["events"], idx + 1)
       IN  /\ UNCHANGED <<match_map, point_map>>
           /\ Insert("events", row.id, EventRow(row, new_id, match_map, point_map))

FetchDebug == Fetch("events", "debug_events")

\* for idx, row in enumerate(rows, start=1): debug_events
InsertDebug ==
    /\ pc = "debug_events"
    /\ idx < Len(rows)
    /\ LET row == rows[idx + 1]
           new_id == NewId(offs["debug_events"], idx + 1)
       IN  /\ UNCHANGED <<match_map, point_map>>
           /\ Insert("debug_events", row.id, DebugRow(row, new_id, match_map))

\* dest.commit(); print("Merged ..."); finally: src.close()
Commit ==
    /\ pc = "debug_events"
    /\ idx = Len(rows)
    /\ outFile' = [exists |-> TRUE, db |-> dest]
    /\ log' = Append(log, <<"Merged", cur>>)
    /\ open' = open \ {cur}
    /\ pc' = retpc
    /\ UNCHANGED <<mainVars, dest, destOpen, mergeLocals, outcome, origin>>

InTry == {"copy_sessions", "offsets", "fetch_matches", "matches", "points",
          "player_stats", "events", "debug_events"}

\* Any src.execute / dest.execute / dest.commit inside try can raise
\* (sqlite3.Error: a source that is no database, an I/O failure).
StorageError ==
    /\ pc \in InTry
    /\ UNCHANGED <<match_map, point_map>>
    /\ Raise("StorageError")

MergeStep ==
    \/ MergeSkip
    \/ MergeOpen
    \/ CopySessions
    \/ ReadOffsets
    \/ FetchMatches
    \/ InsertMatch
    \/ FetchPoints
    \/ InsertPoint
    \/ FetchStats
    \/ InsertStat
    \/ FetchEvents
    \/ InsertEvent
    \/ FetchDebug
    \/ InsertDebug
    \/ Commit

Next ==
    \/ MainListMissing
    \/ MainReadList
    \/ MainNoDbs
    \/ MainConnect
    \/ MainSchema
    \/ MainNext
    \/ MainFinish
    \/ MainAbort
    \/ MergeStep
    \/ StorageError

Spec == Init /\ [][Next]_vars

NextMerge ==
    \/ DirectCall
    \/ MergeStep

SpecMerge == InitMerge /\ [][NextMerge]_vars

(***************************************************************************)
(* read_db_list on its own: the list file is any text of at most           *)
(* MaxTextLen characters, or absent.                                       *)
(***************************************************************************)
IsSpace(c) == c = " "

\* The position of the first c in s, 0 if there is none.
Find(s, c) ==
    IF \E i \in 1 .. Len(s) : s[i] = c
    THEN CHOOSE i \in 1 .. Len(s) :
            /\ s[i] = c
            /\ \A j \in 1 .. (i - 1) : s[j] # c
    ELSE 0

\* str.splitlines(): cut at every line boundary; a boundary at the very end
\* opens no further line.
RECURSIVE splitlines(_)
splitlines(s) ==
    IF s = << >> THEN << >>
    ELSE LET n == Find(s, "\n")
         IN  IF n = 0 THEN << s >>
             ELSE << SubSeq(s, 1, n - 1) >>
                     \o splitlines(SubSeq(s, n + 1, Len(s)))

RECURSIVE lstrip(_)
lstrip(s) ==
    IF s # << >> /\ IsSpace(Head(s)) THEN lstrip(Tail(s)) ELSE s

RECURSIVE rstrip(_)
rstrip(s) ==
    IF s # << >> /\ IsSpace(s[Len(s)])
    THEN rstrip(SubSeq(s, 1, Len(s) - 1))
    ELSE s

\* str.strip()
strip(s) == rstrip(lstrip(s))

startswith(s, c) == s # << >> /\ s[1] = c

\* s.split("#", 1)[0]
BeforeHash(s) ==
    LET n == Find(s, "#")
    IN  IF n = 0 THEN s ELSE SubSeq(s, 1, n - 1)

\* Faulty variant of Entry: the text before "#" is taken as it stands.
EntryUntrimmed(line) == BeforeHash(line)

\* line.split("#", 1)[0].strip(), of a line already stripped
Entry(line) == strip(BeforeHash(line))

listUnchanged ==
    UNCHANGED <<run, k, outFile, dest, destOpen, open, mergeLocals, log, origin,
                prev, retpc, schemaRuns, listFile>>

InitList ==
    /\ pc = "read_db_list"
    /\ listFile \in ListFiles
    /\ lines = << >>
    /\ dbs = << >>
    /\ outcome = "running"
    /\ run = 0
    /\ k = 0
    /\ outFile = NoFile
    /\ dest = EmptyDb
    /\ destOpen = FALSE
    /\ open = {}
    /\ Locals0
    /\ log = << >>
    /\ origin = {}
    /\ prev = NoPrev
    /\ retpc = "read_db_list"
    /\ schemaRuns = 0

\* if not path.exists(): raise FileNotFoundError
ListMissing ==
    /\ pc = "read_db_list"
    /\ ~listFile.exists
    /\ outcome' = "FileNotFoundError"
    /\ pc' = "list_done"
    /\ UNCHANGED <<dbs, lines>>
    /\ listUnchanged

\* dbs = []; path.read_text().splitlines()
ListReadText ==
    /\ pc = "read_db_list"
    /\ listFile.exists
    /\ dbs' = << >>
    /\ lines' = splitlines(listFile.text)
    /\ pc' = "for_line"
    /\ UNCHANGED outcome
    /\ listUnchanged

\* line = line.strip(); if not line or line.startswith("#"): continue
ListSkip ==
    /\ pc = "for_line"
    /\ lines # << >>
    /\ LET line == strip(Head(lines))
       IN  line = << >> \/ startswith(line, "#")
    /\ lines' = Tail(lines)
    /\ UNCHANGED <<pc, dbs, outcome>>
    /\ listUnchanged

\* dbs.append(Path(line.split("#", 1)[0].strip())); the entry is kept as the
\* text handed to Path
ListAppend ==
    /\ pc = "for_line"
    /\ lines # << >>
    /\ LET line == strip(Head(lines))
       IN  /\ ~(line = << >> \/ startswith(line, "#"))
           /\ dbs' = Append(dbs, Entry(line))
    /\ lines' = Tail(lines)
    /\ UNCHANGED <<pc, outcome>>
    /\ listUnchanged

\* return dbs
ListReturn ==
    /\ pc = "for_line"
    /\ lines = << >>
    /\ outcome' = "returned"
    /\ pc' = "list_done"
    /\ UNCHANGED <<dbs, lines>>
    /\ listUnchanged

NextList ==
    \/ ListMissing
    \/ ListReadText
    \/ ListSkip
    \/ ListAppend
    \/ ListReturn

SpecList == InitList /\ [][NextList]_vars

(***************************************************************************)
(* Vocabulary of the properties.                                           *)
(***************************************************************************)
AllTables == Tables \cup {"sessions"}

Range(s) == { s[i] : i \in 1 .. Len(s) }

\* What the destination holds: the connection's view while it is open, the
\* committed file otherwise.
Db == IF destOpen THEN dest ELSE outFile.db

\* The run of main has ended with exit code 0.
Finished0 == pc = "idle" /\ outcome = "returned0"

Existing(m) == SelectSeq(m, Exists)

Reverse(m) == [i \in 1 .. Len(m) |-> m[Len(m) + 1 - i]]

RECURSIVE SumRows(_, _)
SumRows(m, t) ==
    IF m = << >> THEN 0
    ELSE (IF Exists(Head(m)) THEN Len(Store(Head(m))[t]) ELSE 0)
         + SumRows(Tail(m), t)

SessionIds(m) ==
    { r.id : r \in UNION { Range(Store(m[i]).sessions) :
                            i \in { j \in 1 .. Len(m) : Exists(m[j]) } } }

UniqueIds(table) == \A r1, r2 \in table : r1.id = r2.id => r1 = r2

SrcIds(path, t) ==
    LET s == Store(path)[t] IN { s[i].id : i \in 1 .. Len(s) }

SrcRow(o) ==
    LET s == Store(o.path)[o.table]
    IN  s[CHOOSE i \in 1 .. Len(s) : s[i].id = o.old]

DestRow(o) == CHOOSE r \in Db[o.table] : r.id = o.id

\* The copies made so far in the current run of the rows of table t.
Copied(t) == { o \in origin : o.table = t }

IsMerged(line) == line[1] = "Merged"

IsSkipped(line) == line[1] = "Skipping missing DB"

PathsOf(printed) == [i \in 1 .. Len(printed) |-> printed[i][2]]

Missing(p) == ~Exists(p)

\* No insert has hit a primary key already present.
NoCollision == outcome # "IntegrityError"

(***************************************************************************)
(* Properties.                                                             *)
(***************************************************************************)

\* C1: no insert of a run of main ever hits a key already present, and when
\* the run has merged its sources into the fresh destination, in each of
\* matches, points, player_stats, events and debug_events no two rows share a
\* primary key and max(id) is the sum, over the listed sources, of the rows
\* the source holds in that table.
C1_UniqueKeysMaxIsRowSum ==
    /\ NoCollision
    /\ Finished0 =>
         \A t \in Tables :
            /\ UniqueIds(outFile.db[t])
            /\ SetMax(Ids(outFile.db[t])) = SumRows(dbs, t)

C1_Witness ==
    /\ Finished0
    /\ dbs = << "c.db", "a.db" >>
    /\ SetMax(Ids(outFile.db["events"])) = 5
    /\ SetMax(Ids(outFile.db["matches"])) = 3

\* C2: every row merge_db inserts into matches, points, player_stats, events
\* or debug_events gets a primary key strictly greater than every key the
\* table holds at the moment of the insert, for every source of the run, also
\* when the table held rows (with gaps in their ids) before the pass.
C2_NewKeyAboveAllPresent ==
    [][\A t \in Tables :
         \A r \in dest'[t] \ dest[t] :
            \A q \in dest[t] : r.id > q.id]_vars

C2_Witness ==
    /\ retpc = "direct"
    /\ k = 2
    /\ pc = "events"
    /\ idx = Len(rows)
    /\ \E o \in Copied("events") : o.pass = 2
    /\ \E g \in 1 .. SetMax(Ids(dest["events"])) : g \notin Ids(dest["events"])

\* C3 as stated: every Event row of the destination has as match_id the new
\* id the pass gave to some match of the same source, and as point_id the new
\* id given to the source point the source event referenced when the source
\* point_id was non-null, and null otherwise.
C3_AsStated ==
    \A o \in Copied("events") :
       /\ \E m \in Copied("matches") :
             m.pass = o.pass /\ m.id = DestRow(o).match_id
       /\ IF SrcRow(o).point_id # NULL
          THEN \E q \in Copied("points") :
                  /\ q.pass = o.pass
                  /\ q.old = SrcRow(o).point_id
                  /\ q.id = DestRow(o).point_id
          ELSE DestRow(o).point_id = NULL

\* C3, amended: every Event row of the destination has as match_id the new id
\* the pass gave to the match its source event referenced when that match is a
\* row of the same source, and null otherwise; and as point_id the new id
\* given to the point its source event referenced when the source point_id is
\* non-null and the id of a point of the same source, and null otherwise.
C3_EventKeysRemappedOrNull ==
    \A o \in Copied("events") :
       /\ IF SrcRow(o).match_id \in SrcIds(o.path, "matches")
          THEN \E m \in Copied("matches") :
                  /\ m.pass = o.pass
                  /\ m.old = SrcRow(o).match_id
                  /\ m.id = DestRow(o).match_id
          ELSE DestRow(o).match_id = NULL
       /\ IF SrcRow(o).point_id \in SrcIds(o.path, "points")
          THEN \E q \in Copied("points") :
                  /\ q.pass = o.pass
                  /\ q.old = SrcRow(o).point_id
                  /\ q.id = DestRow(o).point_id
          ELSE DestRow(o).point_id = NULL

\* a.db then c.db: c.db's events with a live, a null and a dangling point_id
\* and with a dangling match_id have all been copied.
C3_Witness ==
    /\ Finished0
    /\ dbs = << "a.db", "c.db" >>
    /\ \E e \in outFile.db["events"] :
          e.attrs = "c.e1" /\ e.match_id = 2 /\ e.point_id = 1
    /\ \E e \in outFile.db["events"] :
          e.attrs = "c.e4" /\ e.match_id = 3 /\ e.point_id = NULL
    /\ \E e \in outFile.db["events"] :
          e.attrs = "c.e6" /\ e.match_id = NULL /\ e.point_id = 2

\* C4 as stated: every Point row copied into the destination has as match_id
\* the new id the same pass gave to the match the source point referenced; it
\* is never null.
C4_AsStated ==
    \A o \in Copied("points") :
       /\ DestRow(o).match_id # NULL
       /\ \E m \in Copied("matches") :
             /\ m.pass = o.pass
             /\ m.old = SrcRow(o).match_id
             /\ m.id = DestRow(o).match_id

\* C4, amended: every Point row copied into the destination has as match_id
\* the new id the same pass gave to the match the source point referenced
\* when that match is a row of the same source, and null otherwise; it is
\* never the source-local id left unmapped.
C4_PointMatchRemappedOrNull ==
    \A o \in Copied("points") :
       IF SrcRow(o).match_id \in SrcIds(o.path, "matches")
       THEN \E m \in Copied("matches") :
               /\ m.pass = o.pass
               /\ m.old = SrcRow(o).match_id
               /\ m.id = DestRow(o).match_id
       ELSE DestRow(o).match_id = NULL

C4_Witness ==
    /\ Finished0
    /\ dbs = << "b.db", "c.db" >>
    /\ \E r \in outFile.db["points"] : r.attrs = "c.p3" /\ r.match_id = 2
    /\ \E r \in outFile.db["points"] : r.attrs = "c.p7" /\ r.match_id = NULL

\* C5: a list entry whose file does not exist is skipped: it never raises,
\* the run that ends with exit code 0 has merged exactly the existing
\* entries, in order, those after a missing one included, and has logged a
\* skip for each missing one, and its destination is the one a run over any
\* list with the same existing entries produced (same rows, same ids).
C5_MissingEntrySkipped ==
    /\ pc = "raise" => Exists(cur)
    /\ Finished0 =>
         /\ PathsOf(SelectSeq(log, IsMerged)) = Existing(dbs)
         /\ PathsOf(SelectSeq(log, IsSkipped)) = SelectSeq(dbs, Missing)
         /\ (prev.valid /\ Existing(prev.dbs) = Existing(dbs))
               => outFile.db = prev.db

C5_Witness ==
    /\ Finished0
    /\ prev.valid
    /\ prev.dbs = << "c.db" >>
    /\ dbs = << "missing.db", "c.db" >>
    /\ outFile.db = prev.db
    /\ outFile.db["matches"] # {}

\* C6: the destination sessions table never holds two rows with the same id,
\* and after a run its row count is the number of distinct session ids over
\* the merged sources: two sources with the same Session id give one row.
C6_OneRowPerSessionId ==
    /\ UniqueIds(Db["sessions"])
    /\ Finished0 =>
         /\ Ids(outFile.db["sessions"]) = SessionIds(dbs)
         /\ Cardinality(outFile.db["sessions"]) = Cardinality(SessionIds(dbs))

C6_Witness ==
    /\ Finished0
    /\ dbs = << "a.db", "c.db" >>
    /\ Cardinality({ r \in outFile.db["sessions"] : r.id = "s1" }) = 1
    /\ Cardinality(outFile.db["sessions"]) = 2

\* C7: merging a.db (Session s1, one Match, one Event of that Match) then
\* b.db (Session s2, one Match, one Event of that Match) into an empty
\* destination yields 2 Session rows, Match ids {1,2}, Event ids {1,2}, the
\* event of id 1 with match_id 1 and the event of id 2 with match_id 2.
C7_TwoStoreScenario ==
    (Finished0 /\ dbs = << "a.db", "b.db" >>) =>
       /\ Cardinality(outFile.db["sessions"]) = 2
       /\ Ids(outFile.db["sessions"]) = {"s1", "s2"}
       /\ Ids(outFile.db["matches"]) = {1, 2}
       /\ Ids(outFile.db["events"]) = {1, 2}
       /\ Cardinality(outFile.db["matches"]) = 2
       /\ Cardinality(outFile.db["events"]) = 2
       /\ \A e \in outFile.db["events"] : e.match_id = e.id

C7_Witness ==
    /\ Finished0
    /\ dbs = << "a.db", "b.db" >>
    /\ outFile.db["events"] # {}

\* C8: merging a list and merging the same list in the opposite order (A then
\* B, B then A) both end without a primary-key collision and give the same
\* row count in every table, sessions included.
C8_OrderKeepsCounts ==
    /\ NoCollision
    /\ (Finished0 /\ prev.valid /\ prev.dbs = Reverse(dbs)) =>
          \A t \in AllTables :
             /\ UniqueIds(outFile.db[t])
             /\ UniqueIds(prev.db[t])
             /\ Cardinality(outFile.db[t]) = Cardinality(prev.db[t])

C8_Witness ==
    /\ Finished0
    /\ prev.valid
    /\ prev.dbs = << "a.db", "c.db" >>
    /\ dbs = << "c.db", "a.db" >>
    /\ outFile.db # prev.db

C11_AppendOnly ==
    [][(destOpen /\ destOpen') =>
          \A t \in AllTables :
             /\ dest[t] \subseteq dest'[t]
             /\ outFile.db[t] \subseteq outFile'.db[t]
             /\ \A r \in dest'[t] \ dest[t] : r.id \notin Ids(dest[t])]_vars

\* The second pass has copied c.db on top of a.db's rows: a.db's session s1
\* is the one kept.
C11_Witness ==
    /\ pc = "loop"
    /\ k = 2
    /\ dbs = << "a.db", "c.db" >>
    /\ [id |-> "s1", attrs |-> "a.s1"] \in dest["sessions"]
    /\ [id |-> 1, session_id |-> "s1", attrs |-> "a.m1"] \in outFile.db["matches"]
    /\ Cardinality(outFile.db["matches"]) = 3


\* The run has failed with a storage error in the pass of entry k: the
\* exception is on its way out, or has ended the process.
Failed == pc = "raise" \/ (pc = "idle" /\ outcome = "StorageError")

\* C12: when a storage error occurs during the pass of the k-th source, the
\* committed destination holds exactly the rows of the sources before k, each
\* of them whole, in all six tables, and no row of source k: not its
\* sessions, not the rows it inserted before the error.  It is the
\* destination a run over those earlier sources alone leaves.
C12_FailedPassLeavesPrefix ==
    Failed =>
       LET before == SubSeq(dbs, 1, k - 1)
       IN  /\ \A t \in Tables :
                /\ Cardinality(outFile.db[t]) = SumRows(before, t)
                /\ \A r \in outFile.db[t] :
                      \E o \in Copied(t) : o.id = r.id /\ o.pass < k
           /\ Ids(outFile.db["sessions"]) = SessionIds(before)
           /\ (prev.valid /\ Existing(prev.dbs) = Existing(before))
                 => outFile.db = prev.db

\* c.db fails after its sessions and all its events went in: the connection
\* sees them, the committed file holds a.db's rows only.
C12_Witness ==
    /\ pc = "raise"
    /\ outcome = "StorageError"
    /\ dbs = << "a.db", "c.db" >>
    /\ k = 2
    /\ Cardinality(dest["events"]) = 5
    /\ "s3" \in Ids(dest["sessions"])
    /\ Cardinality(outFile.db["events"]) = 1
    /\ Ids(outFile.db["sessions"]) = {"s1"}
    /\ prev.valid
    /\ prev.dbs = << "a.db" >>
    /\ outFile.db = prev.db


IsWritten(line) == line[1] = "Combined DB written to"

\* C13: a storage error raised while merging one source leaves merge_db and
\* ends the run: the only step after it is the end of the process, which
\* changes nothing committed, so no entry after the failing one is merged and
\* the sources committed before it stay committed; the run reports no
\* success (no final line, exit code not 0).
C13_StorageErrorAbortsRun ==
    /\ [](Failed =>
            /\ outcome = "StorageError"
            /\ ExitCode(outcome) # 0
            /\ PathsOf(SelectSeq(log, IsMerged)) = Existing(SubSeq(dbs, 1, k - 1))
            /\ SelectSeq(log, IsWritten) = << >>)
    /\ [][pc = "raise" =>
             /\ pc' = "idle"
             /\ outFile' = outFile
             /\ <<outcome, log, k, dbs>>' = <<outcome, log, k, dbs>>]_vars

\* a.db is committed, c.db has failed, and the process has ended.
C13_Witness ==
    /\ pc = "idle"
    /\ outcome = "StorageError"
    /\ dbs = << "a.db", "c.db" >>
    /\ k = 2
    /\ log = << <<"Merged", "a.db">> >>
    /\ Cardinality(outFile.db["matches"]) = 1



\* C14: a run whose list yields no entry ends with exit code 1 without
\* merging a source and without touching the destination path (the file is
\* neither removed, created nor opened, the schema is not run); a run whose
\* list yields at least one entry and meets no storage error ends with exit
\* code 0.
C14_EmptyListExitsOne ==
    /\ []((pc = "idle" /\ outcome = "returned1") =>
            /\ dbs = << >>
            /\ ExitCode(outcome) = 1
            /\ SelectSeq(log, IsMerged) = << >>
            /\ schemaRuns = 0
            /\ ~destOpen
            /\ prev.valid => outFile = [exists |-> TRUE, db |-> prev.db]
            /\ run = 1 => outFile = NoFile)
    /\ [](destOpen => dbs # << >>)
    /\ []((pc = "idle" /\ dbs # << >> /\ outcome # "StorageError") =>
            ExitCode(outcome) = 0)
    /\ [][(pc = "checked" /\ dbs = << >>) =>
             /\ pc' = "idle"
             /\ outcome' = "returned1"
             /\ outFile' = outFile
             /\ ~destOpen']_vars

\* The second run finds an empty list: the file of the first run is still
\* there, as the first run left it.
C14_Witness ==
    /\ pc = "idle"
    /\ outcome = "returned1"
    /\ run = 2
    /\ prev.valid
    /\ prev.dbs = << "a.db", "c.db" >>
    /\ outFile = [exists |-> TRUE, db |-> prev.db]
    /\ Cardinality(outFile.db["matches"]) = 3


\* C15: when the list file does not exist, read_db_list fails and the run
\* ends before any merging, with a non-zero exit code: the schema is not run,
\* the destination is not opened, no source is opened or merged, and the file
\* at the destination path is left as it was.
C15_MissingListAbortsFirst ==
    /\ []((pc = "idle" /\ outcome = "FileNotFoundError") =>
            /\ dbs = << >>
            /\ ExitCode(outcome) # 0
            /\ schemaRuns = 0
            /\ log = << >>
            /\ ~destOpen
            /\ open = {}
            /\ prev.valid => outFile = [exists |-> TRUE, db |-> prev.db]
            /\ run = 1 => outFile = NoFile)
    /\ [][outcome' = "FileNotFoundError" =>
             /\ pc' = "idle"
             /\ outFile' = outFile
             /\ <<dest, destOpen, open>>' = <<dest, destOpen, open>>]_vars

\* The list file is gone at the second run: the file of the first run stays.
C15_Witness ==
    /\ pc = "idle"
    /\ outcome = "FileNotFoundError"
    /\ run = 2
    /\ prev.valid
    /\ prev.dbs = << "c.db" >>
    /\ outFile = [exists |-> TRUE, db |-> prev.db]
    /\ Cardinality(outFile.db["events"]) = 4


ChildTables == {"points", "player_stats", "events", "debug_events"}

\* The pass of entry k has returned after its commit.
PassDone == pc = retpc /\ k > 0 /\ Exists(cur)

\* C17: a source row of points, player_stats, events or debug_events whose
\* match_id is not the id of a match of its source, and a source event whose
\* non-null point_id is not the id of a point of its source, is still copied:
\* the committed table holds it under the fresh key offset + i, with NULL in
\* that column.  Such rows raise nothing: every step of the pass can be
\* followed by the next, up to the commit.
C17_DanglingCopiedWithNull ==
    /\ pc # "raise"
    /\ pc \in InTry \cup {"call"} => ENABLED MergeStep
    /\ PassDone =>
         \A t \in ChildTables :
            \A i \in 1 .. Len(Store(cur)[t]) :
               LET s == Store(cur)[t][i]
               IN  \E r \in outFile.db[t] :
                      /\ r.id = offs[t] + i
                      /\ r.attrs = s.attrs
                      /\ s.match_id \notin SrcIds(cur, "matches")
                            => r.match_id = NULL
                      /\ (/\ t = "events"
                          /\ s.point_id # NULL
                          /\ s.point_id \notin SrcIds(cur, "points"))
                            => r.point_id = NULL

\* c.db, merged second into a destination that already held rows: its point
\* 7, stat 4, events 4 and 6 and debug row 11 are there with NULL references.
C17_Witness ==
    /\ PassDone
    /\ retpc = "direct"
    /\ k = 2
    /\ cur = "c.db"
    /\ outFile.db["matches"] # {}
    /\ \E r \in outFile.db["points"] : r.attrs = "c.p7" /\ r.match_id = NULL
    /\ \E r \in outFile.db["player_stats"] : r.attrs = "c.s4" /\ r.match_id = NULL
    /\ \E r \in outFile.db["events"] : r.attrs = "c.e4" /\ r.point_id = NULL
    /\ \E r \in outFile.db["events"] : r.attrs = "c.e6" /\ r.match_id = NULL
    /\ \E r \in outFile.db["debug_events"] : r.attrs = "c.d11" /\ r.match_id = NULL


Injective(f) == \A a, b \in DOMAIN f : f[a] = f[b] => a = b

\* The map sends each old id to the id under which the current pass copied
\* that row of table t.
MapsToCopies(map, t) ==
    \A old \in DOMAIN map :
       \E o \in Copied(t) : o.pass = k /\ o.old = old /\ o.id = map[old]

\* C18: within a pass, from before the first point row is copied until the
\* last debug_events row, match_map has an entry for every match row of the
\* source (and for nothing else), and from before the first event row is
\* copied point_map has an entry for every point row of the source; each
\* entry is the new id of that row's copy, and both maps are injective.
C18_MapsCompleteBeforeUse ==
    /\ pc \in ChildTables =>
          /\ DOMAIN match_map = SrcIds(cur, "matches")
          /\ MapsToCopies(match_map, "matches")
    /\ pc \in {"events", "debug_events"} =>
          /\ DOMAIN point_map = SrcIds(cur, "points")
          /\ MapsToCopies(point_map, "points")
    /\ pc \in InTry => Injective(match_map) /\ Injective(point_map)

\* c.db, second in the list: no event copied yet, both maps are complete.
C18_Witness ==
    /\ pc = "events"
    /\ idx = 0
    /\ k = 2
    /\ dbs = << "a.db", "c.db" >>
    /\ DOMAIN match_map = {2, 5}
    /\ match_map[2] = 2 /\ match_map[5] = 3
    /\ DOMAIN point_map = {3, 7}
    /\ point_map[3] = 1 /\ point_map[7] = 2


\* C19: in every pass and for each of matches, points, player_stats, events
\* and debug_events, the offset used for the table is the largest primary key
\* the destination table holds when the copy of that table begins (0 when it
\* is empty): it counts the rows of every source merged before and the rows
\* the destination held before, and is never a value of an earlier pass.
C19_OffsetIsCurrentMax ==
    /\ pc = "fetch_matches" =>
          \A t \in Tables : offs[t] = SetMax(Ids(dest[t]))
    /\ (pc \in Tables /\ idx = 0) => offs[pc] = SetMax(Ids(dest[pc]))

\* Second pass on a destination that held event 6: the copy of c.db's events
\* begins at offset 7, above a.db's event.
C19_Witness ==
    /\ pc = "events"
    /\ idx = 0
    /\ k = 2
    /\ cur = "c.db"
    /\ offs["events"] = 7
    /\ Cardinality(dest["events"]) = 2
    /\ rows # << >>


\* The ids the current pass has given in table t.
PassIds(t) == { o.id : o \in { c \in Copied(t) : c.pass = k } }

\* The ids of the rows of table t that no pass copied: they were there before.
PreIds(t) == Ids(dest[t]) \ { o.id : o \in Copied(t) }

\* C20: with offset o for a source table of K rows, the i-th row read from
\* the source gets id o+i: while the table is copied the ids given so far are
\* o+1..o+idx, after the pass they are o+1..o+K, without a hole; every id
\* given lies above all ids the destination held before, so a gap below o is
\* never filled.
C20_IdsAreOffsetPlusIndex ==
    /\ \A o \in origin :
          o.pass = k =>
             \E i \in 1 .. Len(Store(o.path)[o.table]) :
                /\ Store(o.path)[o.table][i].id = o.old
                /\ o.id = offs[o.table] + i
    /\ pc \in Tables => PassIds(pc) = (offs[pc] + 1) .. (offs[pc] + idx)
    /\ PassDone =>
          \A t \in Tables :
             PassIds(t) = (offs[t] + 1) .. (offs[t] + Len(Store(cur)[t]))
    /\ \A t \in Tables :
          \A o \in Copied(t) : o.id > SetMax(PreIds(t))

\* c.db copied into a destination that held events 2 and 6: its four events
\* are 7..10, and 1, 3, 4, 5 stay free.
C20_Witness ==
    /\ PassDone
    /\ k = 1
    /\ cur = "c.db"
    /\ PreIds("events") = {2, 6}
    /\ offs["events"] = 6
    /\ PassIds("events") = 7 .. 10
    /\ Ids(outFile.db["events"]) = {2, 6, 7, 8, 9, 10}


\* A line of white space only.
Blank(l) == \A i \in 1 .. Len(l) : IsSpace(l[i])

\* The first character of l that is not white space is "#".
WholeLineComment(l) ==
    \E i \in 1 .. Len(l) :
       /\ l[i] = "#"
       /\ \A j \in 1 .. (i - 1) : IsSpace(l[j])

\* The positions of l before its first "#".
BeforeComment(l) ==
    { i \in 1 .. Len(l) : \A j \in 1 .. i : l[j] # "#" }

\* The text of l before its first "#", from the first to the last character
\* that is not white space.
TrimmedPath(l) ==
    LET solid == { i \in BeforeComment(l) : ~IsSpace(l[i]) }
    IN  IF solid = {} THEN << >>
        ELSE SubSeq(l, SetMin(solid), SetMax(solid))

\* The lines of the list file, and how many of them the loop has read.
FileLines == splitlines(listFile.text)

LinesRead == Len(FileLines) - Len(lines)

\* The lines read so far that are neither blank nor a whole-line comment.
Counted ==
    { i \in 1 .. LinesRead :
         ~Blank(FileLines[i]) /\ ~WholeLineComment(FileLines[i]) }

\* C16: read_db_list returns one entry per line that is neither blank nor a
\* whole-line comment, in file order; the entry is the trimmed text before
\* the line's first "#"; blank lines and comment lines give no entry.
C16_OneEntryPerCountedLine ==
    (pc \in {"for_line", "list_done"} /\ listFile.exists) =>
       /\ Len(dbs) = Cardinality(Counted)
       /\ \A i \in Counted :
             dbs[Cardinality({ j \in Counted : j <= i })]
                = TrimmedPath(FileLines[i])
       /\ \A n \in 1 .. Len(dbs) : dbs[n] # << >>

\* The lines "b" and "a #a": two entries in file order, the second cut at its
\* trailing comment and trimmed.
C16_Witness ==
    /\ pc = "list_done"
    /\ outcome = "returned"
    /\ listFile.text = << "b", "\n", "a", " ", "#", "a" >>
    /\ dbs = << << "b" >>, << "a" >> >>



IsPass(line) == IsMerged(line) \/ IsSkipped(line)

\* The passes that have ended so far in this run, by the lines they printed.
PassesLogged == PathsOf(SelectSeq(log, IsPass))

\* The position main or merge_db is at once the schema has been created.
AfterSchema == {"loop", "call", "raise"} \cup InTry

\* Schema once and before every pass; one pass per entry, in list order, each
\* begun with nothing pending and no source open.
SchemaOnceThenPassesInOrder ==
    /\ pc \in {"checked", "schema"} =>
          schemaRuns = 0 /\ k = 0 /\ PassesLogged = << >>
    /\ (pc \in AfterSchema \/ Finished0) => schemaRuns = 1
    /\ pc \in {"call"} \cup InTry =>
          /\ PassesLogged = SubSeq(dbs, 1, k - 1)
          /\ outFile.exists
    /\ pc = "call" => dest = outFile.db /\ open = {}
    /\ pc = "loop" =>
          /\ PassesLogged = SubSeq(dbs, 1, k)
          /\ dest = outFile.db
    /\ Finished0 => PassesLogged = dbs

\* The order of the text keys of sessions, as sqlite compares them.
TextRank(s) == CASE s = "s1" -> 1 [] s = "s2" -> 2 [] s = "s3" -> 3

\* The entry whose pass wrote the sessions row of this id: the first existing
\* one that holds it.
FirstWith(id) ==
    SetMin({ i \in 1 .. Len(dbs) :
               Exists(dbs[i]) /\ id \in SrcIds(dbs[i], "sessions") })

\* C21 as stated: the key order holds in every table, sessions included.
C21_AsStated ==
    /\ SchemaOnceThenPassesInOrder
    /\ \A t \in Tables :
          \A o1, o2 \in Copied(t) : o1.pass < o2.pass => o1.id < o2.id
    /\ Finished0 =>
          \A r1, r2 \in outFile.db["sessions"] :
             FirstWith(r1.id) < FirstWith(r2.id)
                => TextRank(r1.id) < TextRank(r2.id)

\* C21: in a run with a non-empty list the schema script runs exactly once,
\* before any pass; merge_db is called once per entry, in list order, and the
\* pass of entry k+1 starts only when that of entry k has committed or
\* skipped; in each of matches, points, player_stats, events and debug_events
\* every row of an earlier entry has a smaller key than every row of a later
\* one.  (Sessions keep their source keys: their order follows the sources.)
C21_SchemaOncePassesInOrder ==
    /\ SchemaOnceThenPassesInOrder
    /\ \A t \in Tables :
          \A o1, o2 \in Copied(t) : o1.pass < o2.pass => o1.id < o2.id

\* b.db then a.db: every integer key of b.db is below a.db's, while the
\* session s2 of the first entry sorts after the session s1 of the second.
C21_Witness ==
    /\ Finished0
    /\ dbs = << "b.db", "a.db" >>
    /\ schemaRuns = 1
    /\ PassesLogged = dbs
    /\ [id |-> 1, session_id |-> "s2", attrs |-> "b.m1"] \in outFile.db["matches"]
    /\ [id |-> 2, session_id |-> "s1", attrs |-> "a.m1"] \in outFile.db["matches"]
    /\ Ids(outFile.db["sessions"]) = {"s1", "s2"}


\* C22: a source is open only inside the try block of its own pass, and it
\* is the only one open; it is closed when the pass returns after its commit
\* and when an error leaves the pass, so none is open when the next pass is
\* called, while main is between passes, or when the run has ended.
C22_SourceClosedWithinPass ==
    /\ Cardinality(open) <= 1
    /\ pc \in InTry => open = {cur}
    /\ pc \notin InTry => open = {}

\* a.db was merged and closed, then the pass of c.db failed on a storage
\* error: c.db is closed too.
C22_Witness ==
    /\ pc = "raise"
    /\ outcome = "StorageError"
    /\ dbs = << "a.db", "c.db" >>
    /\ k = 2
    /\ PassesLogged = << "a.db" >>
    /\ dest["events"] # outFile.db["events"]
    /\ open = {}


\* Every reference of a copied child row is to a row copied in the same pass.
RefsWithinPass ==
    \A o \in { c \in origin : c.table \in ChildTables } :
       LET r == DestRow(o)
       IN  /\ r.match_id # NULL =>
                \E m \in Copied("matches") :
                   m.id = r.match_id /\ m.pass = o.pass /\ m.path = o.path
           /\ (o.table = "events" /\ r.point_id # NULL) =>
                \E p \in Copied("points") :
                   p.id = r.point_id /\ p.pass = o.pass /\ p.path = o.path

\* C23: both id maps are empty when the copy of a source begins and hold
\* entries of that source only while it is copied, one per row copied so far
\* in this pass; so a match_id or point_id written for a row of one source is
\* always the id of a row copied from the same source in the same pass, also
\* when sources reuse the same local ids.
C23_MapsRebuiltPerPass ==
    /\ pc = "fetch_matches" => match_map = EmptyMap /\ point_map = EmptyMap
    /\ pc \in Tables =>
          /\ DOMAIN match_map \subseteq SrcIds(cur, "matches")
          /\ DOMAIN point_map \subseteq SrcIds(cur, "points")
          /\ MapsToCopies(match_map, "matches")
          /\ MapsToCopies(point_map, "points")
    /\ RefsWithinPass

\* a.db (match 1) then c.db, whose player_stats row 4 names a match 1 that
\* c.db does not hold: the copy has NULL, not a.db's match, and c.db's event
\* 1 points at the copy of c.db's own match 2.
C23_Witness ==
    /\ Finished0
    /\ dbs = << "a.db", "c.db" >>
    /\ [id |-> 1, session_id |-> "s1", attrs |-> "a.m1"] \in outFile.db["matches"]
    /\ \E r \in outFile.db["player_stats"] : r.attrs = "c.s4" /\ r.match_id = NULL
    /\ \E r \in outFile.db["events"] : r.attrs = "c.e1" /\ r.match_id = 2



\* The sessions row of this id as the source at path holds it.
SrcSession(path, id) ==
    CHOOSE r \in Range(Store(path)["sessions"]) : r.id = id

\* The rows of table t copied by the pass of entry i.
CopiedBy(i, t) == { o \in Copied(t) : o.pass = i }

\* C24: a source session whose id the destination already holds changes
\* nothing and raises nothing: after copy_sessions the destination has every
\* session row it had, unchanged, plus the source's sessions with a new id;
\* after the run each session row is the one of the first source that holds
\* its id, and every row of the other tables of every source has been copied.
C24_ExistingSessionKept ==
    /\ outcome # "IntegrityError"
    /\ pc \in InTry \ {"copy_sessions"} =>
          /\ outFile.db["sessions"] \subseteq dest["sessions"]
          /\ dest["sessions"] \ outFile.db["sessions"]
                = { r \in Range(Store(cur)["sessions"]) :
                      r.id \notin Ids(outFile.db["sessions"]) }
    /\ Finished0 =>
          /\ \A r \in outFile.db["sessions"] :
                r = SrcSession(dbs[FirstWith(r.id)], r.id)
          /\ \A i \in 1 .. Len(dbs) :
                Exists(dbs[i]) =>
                   \A t \in Tables :
                      Cardinality(CopiedBy(i, t)) = Len(Store(dbs[i])[t])

\* c.db after a.db: s1 keeps a.db's attributes, c.db's s3 and all four of
\* c.db's events are there.
C24_Witness ==
    /\ Finished0
    /\ dbs = << "a.db", "c.db" >>
    /\ outFile.db["sessions"]
          = { [id |-> "s1", attrs |-> "a.s1"], [id |-> "s3", attrs |-> "c.s3"] }
    /\ Cardinality(CopiedBy(2, "events")) = 4
    /\ Cardinality(outFile.db["events"]) = 5


\* Every reference in db that is not NULL names a row db holds.
RefsExist(db) ==
    /\ \A t \in ChildTables :
          \A r \in db[t] : r.match_id # NULL => r.match_id \in Ids(db["matches"])
    /\ \A r \in db["events"] :
          r.point_id # NULL => r.point_id \in Ids(db["points"])

\* C25: in a run of main, which starts from an empty destination, the
\* committed file never holds a match_id (in points, player_stats, events,
\* debug_events) or a point_id (in events) that is not NULL and not the id of
\* a match, or point, of the file, whatever dangling references the sources
\* hold; the same is true of the uncommitted rows the connection sees.
C25_CommittedRefsExist ==
    /\ RefsExist(outFile.db)
    /\ RefsExist(dest)

\* c.db, with its dangling references, merged after b.db: the committed file
\* holds c.db's event 1 pointing at existing rows and its events 4 and 6 with
\* NULL in place of the dangling ids.
C25_Witness ==
    /\ pc = "loop"
    /\ dbs = << "b.db", "c.db" >>
    /\ k = 2
    /\ [id |-> 2, match_id |-> 2, point_id |-> 1, attrs |-> "c.e1"]
          \in outFile.db["events"]
    /\ [id |-> 4, match_id |-> 3, point_id |-> NULL, attrs |-> "c.e4"]
          \in outFile.db["events"]
    /\ [id |-> 5, match_id |-> NULL, point_id |-> 2, attrs |-> "c.e6"]
          \in outFile.db["events"]


\* The source session ids the committed destination does not hold.
NewSessionIds == SrcIds(cur, "sessions") \ Ids(outFile.db["sessions"])

\* C26: the commit that completes the pass of an existing source leaves each
\* of matches, points, player_stats, events and debug_events with exactly as
\* many rows more than before the pass as the source holds in that table
\* (rows with a dangling or NULL reference included), and sessions with as
\* many more as the source has session ids the destination did not hold; the
\* destination may have held rows before.
C26_RowCountGrowsBySource ==
    [][(pc = "debug_events" /\ pc' = retpc) =>
          /\ \A t \in Tables :
                Cardinality(outFile'.db[t])
                   = Cardinality(outFile.db[t]) + Len(Store(cur)[t])
          /\ Cardinality(outFile'.db["sessions"])
                = Cardinality(outFile.db["sessions"]) + Cardinality(NewSessionIds)]_vars

\* c.db merged into a destination that held session s1 and two events: one
\* session and four events more.
C26_Witness ==
    /\ PassDone
    /\ k = 1
    /\ cur = "c.db"
    /\ PreIds("events") = {2, 4}
    /\ Cardinality(outFile.db["events"]) = 6
    /\ Cardinality(outFile.db["player_stats"]) = 2
    /\ Ids(outFile.db["sessions"]) = {"s1", "s3"}
    /\ [id |-> "s1", attrs |-> "pre.s1"] \in outFile.db["sessions"]


\* The entries of the list that name the same existing source twice.
Twice ==
    { p \in (1 .. Len(dbs)) \X (1 .. Len(dbs)) :
         p[1] < p[2] /\ dbs[p[1]] = dbs[p[2]] /\ Exists(dbs[p[1]]) }

\* The copy that the pass of entry i made of the source row of table t with
\* the id old.
CopyOf(i, t, old) == CHOOSE o \in CopiedBy(i, t) : o.old = old

\* The pass of entry i copied every row of table t once, and the references
\* of its copies are to copies of the same pass: to the copy of the row the
\* source row names, NULL when the source holds no such row.
WholeCopy(i) ==
    /\ \A t \in Tables :
          /\ { o.old : o \in CopiedBy(i, t) } = SrcIds(dbs[i], t)
          /\ Cardinality(CopiedBy(i, t)) = Len(Store(dbs[i])[t])
          /\ \A o \in CopiedBy(i, t) : DestRow(o).attrs = SrcRow(o).attrs
    /\ \A t \in ChildTables :
          \A o \in CopiedBy(i, t) :
             DestRow(o).match_id
                = IF SrcRow(o).match_id \in SrcIds(dbs[i], "matches")
                  THEN CopyOf(i, "matches", SrcRow(o).match_id).id
                  ELSE NULL
    /\ \A o \in CopiedBy(i, "events") :
          DestRow(o).point_id
             = IF SrcRow(o).point_id \in SrcIds(dbs[i], "points")
               THEN CopyOf(i, "points", SrcRow(o).point_id).id
               ELSE NULL

\* C27: a list that names the same existing source twice is merged without
\* an error; the destination then holds two whole copies of the source's
\* matches, points, player_stats, events and debug_events under disjoint ids,
\* the references of each copy being to rows of the same copy, and one row
\* for each of its sessions.
C27_SameSourceTwice ==
    /\ (Twice # {} /\ pc \notin {"checked", "schema"}) =>
          outcome \in {"running", "returned0", "StorageError"}
    /\ Finished0 =>
          \A p \in Twice :
             /\ WholeCopy(p[1])
             /\ WholeCopy(p[2])
             /\ \A t \in Tables :
                   /\ { o.id : o \in CopiedBy(p[1], t) }
                         \cap { o.id : o \in CopiedBy(p[2], t) } = {}
                   /\ Cardinality(outFile.db[t]) >= 2 * Len(Store(dbs[p[1]])[t])
             /\ \A s \in SrcIds(dbs[p[1]], "sessions") :
                   Cardinality({ r \in outFile.db["sessions"] : r.id = s }) = 1

\* c.db twice: events 1..4 and 5..8, the second copy of event 1 pointing at
\* the second copies of match 2 and point 3; sessions s1 and s3 once each.
C27_Witness ==
    /\ Finished0
    /\ dbs = << "c.db", "c.db" >>
    /\ Ids(outFile.db["events"]) = 1 .. 8
    /\ [id |-> 1, match_id |-> 1, point_id |-> 1, attrs |-> "c.e1"]
          \in outFile.db["events"]
    /\ [id |-> 5, match_id |-> 3, point_id |-> 3, attrs |-> "c.e1"]
          \in outFile.db["events"]
    /\ Cardinality(outFile.db["sessions"]) = 2


\* The session rows of the existing sources of the list.
SourceSessions ==
    UNION { Range(Store(dbs[i])["sessions"]) :
              i \in { j \in 1 .. Len(dbs) : Exists(dbs[j]) } }

\* The file at out_path after a successful run holds nothing but copies of
\* rows of this run's sources.
OnlyThisRun ==
    /\ \A t \in Tables :
          \A r \in outFile.db[t] :
             \E o \in Copied(t) :
                /\ o.id = r.id
                /\ dbs[o.pass] = o.path
                /\ r.attrs = SrcRow(o).attrs
    /\ outFile.db["sessions"] \subseteq SourceSessions

\* main has removed the file at out_path and connected to a new, empty one.
StartsEmpty == pc = "schema" => ~outFile.exists /\ dest = EmptyDb

\* A session key is the text the source gave it, never the integer 1.
StartsAtOne(t) ==
    IF t = "sessions" THEN FALSE ELSE SetMin(Ids(outFile.db[t])) = 1

\* C28 as stated: the ids of every table that holds rows start at 1,
\* sessions included.
C28_AsStated ==
    /\ StartsEmpty
    /\ Finished0 =>
          /\ OnlyThisRun
          /\ \A t \in AllTables : outFile.db[t] # {} => StartsAtOne(t)

\* C28: with a non-empty list main removes the file at out_path, if there is
\* one, before it connects: after a successful run the file holds only rows
\* copied from the sources of this run's list, nothing of what it held
\* before, and in each of matches, points, player_stats, events and
\* debug_events the ids are 1..n.  (Sessions keep the ids of their sources.)
C28_ExistingFileRemoved ==
    /\ StartsEmpty
    /\ Finished0 =>
          /\ OnlyThisRun
          /\ \A t \in Tables :
                Ids(outFile.db[t]) = 1 .. Cardinality(outFile.db[t])

\* The file held the merge of c.db; a second run over a list of a.db alone
\* leaves a.db's rows only, its match under id 1, its session under s1.
C28_Witness ==
    /\ Finished0
    /\ run = 2
    /\ prev.valid
    /\ prev.dbs = << "c.db" >>
    /\ Cardinality(prev.db["events"]) = 4
    /\ dbs = << "a.db" >>
    /\ outFile.db["matches"] = { [id |-> 1, session_id |-> "s1", attrs |-> "a.m1"] }
    /\ outFile.db["sessions"] = { [id |-> "s1", attrs |-> "a.s1"] }
    /\ outFile.db["points"] = {}


\* The list names at least one source, and no file it names exists.
AllMissing == dbs # << >> /\ \A i \in 1 .. Len(dbs) : Missing(dbs[i])

\* C29: a run over a non-empty list of missing files only does not fail: no
\* source is opened, nothing is raised, each step is followed by the next
\* until main returns; every entry is skipped, the file at out_path is
\* created by the schema script with no row in any of the six tables, and
\* the exit code is 0.
C29_AllMissingExitsZero ==
    AllMissing =>
       /\ pc \notin InTry \cup {"raise"}
       /\ outcome \in {"running", "returned0"}
       /\ pc # "idle" => ENABLED Next
       /\ dest = EmptyDb
       /\ pc \in {"loop", "call"} => outFile = [exists |-> TRUE, db |-> EmptyDb]
       /\ pc = "idle" =>
             /\ ExitCode(outcome) = 0
             /\ outFile = [exists |-> TRUE, db |-> EmptyDb]
             /\ schemaRuns = 1
             /\ PathsOf(SelectSeq(log, IsSkipped)) = dbs
             /\ SelectSeq(log, IsMerged) = << >>
             /\ IsWritten(log[Len(log)])

\* Two missing entries, after a run that had merged c.db: exit code 0 and an
\* empty destination in place of the earlier one.
C29_Witness ==
    /\ pc = "idle"
    /\ dbs = << "missing.db", "missing.db" >>
    /\ outcome = "returned0"
    /\ prev.valid
    /\ prev.db["events"] # {}
    /\ Len(log) = 3
    /\ outFile = [exists |-> TRUE, db |-> EmptyDb]


\* The row of table t with this id, in the source at path and in the
\* destination.
SrcById(path, t, id) == CHOOSE r \in Range(Store(path)[t]) : r.id = id

DestById(t, id) == CHOOSE r \in Db[t] : r.id = id

\* In its source, the event has a point, and the point's match is the
\* event's match.
PointOfSameMatch(path, ev) ==
    /\ ev.point_id \in SrcIds(path, "points")
    /\ SrcById(path, "points", ev.point_id).match_id = ev.match_id

\* C30: when a source event has a point of the event's own match, the copy
\* of the event names a destination point whose match_id is the match_id of
\* the copied event; and a copied match keeps its session_id as it was in
\* the source, which is the id of a destination session whenever it is the
\* id of a session of the source.
C30_EventPointMatchAgree ==
    /\ \A o \in Copied("events") :
          PointOfSameMatch(o.path, SrcRow(o)) =>
             /\ DestRow(o).point_id \in Ids(Db["points"])
             /\ DestById("points", DestRow(o).point_id).match_id
                   = DestRow(o).match_id
    /\ \A o \in Copied("matches") :
          /\ DestRow(o).session_id = SrcRow(o).session_id
          /\ SrcRow(o).session_id \in SrcIds(o.path, "sessions")
                => DestRow(o).session_id \in Ids(Db["sessions"])

\* c.db after a.db: its event 1 of match 2 and point 3 is event 2 of match 2
\* and point 1, point 1 is of match 2, and match 2 keeps the session s1, the
\* row that a.db brought.
C30_Witness ==
    /\ Finished0
    /\ dbs = << "a.db", "c.db" >>
    /\ [id |-> 2, match_id |-> 2, point_id |-> 1, attrs |-> "c.e1"]
          \in outFile.db["events"]
    /\ [id |-> 1, match_id |-> 2, attrs |-> "c.p3"] \in outFile.db["points"]
    /\ [id |-> 2, session_id |-> "s1", attrs |-> "c.m2"] \in outFile.db["matches"]
    /\ [id |-> "s1", attrs |-> "a.s1"] \in outFile.db["sessions"]

====
